---- MODULE Spec2Model ----
(***************************************************************************)
(* Leaky-bucket rate limiter on a Redis sorted set                         *)
(* (leaky_bucket.LeakyBucketRedis: NewLeakyBucket, Allow and the Lua       *)
(* script Allow sends with EVAL).                                          *)
(*                                                                         *)
(* Time is counted in ticks; TicksPerSecond ticks make one second.  Every  *)
(* timestamp of the program (time.Now() of a caller, a score of the sorted *)
(* set, the expiry instant of a key) is a whole number of ticks, and the   *)
(* rates of the model are those whose token interval 1/rate is a whole     *)
(* number of ticks, so that the script's float arithmetic is exact.        *)
(* A rate is the fraction num/den of requests per second.                  *)
(* A time.Duration is the pair of its whole seconds and its remaining      *)
(* nanoseconds.                                                            *)
(***************************************************************************)
EXTENDS Integers, Sequences, FiniteSets, TLC

\* ------------------------------------------------------------------ bounds
TicksPerSecond == 2
MaxTime == 5
MaxCalls == 3
MaxReply == 3
MaxLate == 1

\* --------------------------------------------------------- program constants
WindowSeconds == 1
ExpireSeconds == 2
NanosPerSecond == 1000000000

Procs == {"p1", "p2"}
Keys == {"a", "b"}
BucketInputs == {"a", ""}
Client == "client"

Rate(n, d) == [num |-> n, den |-> d]
Rates == {Rate(1, 2), Rate(1, 1), Rate(TicksPerSecond, 1)}
RateInputs == Rates \cup {Rate(0, 1), Rate(0 - 5, 1)}

Nil == [client |-> "", key |-> "", rate |-> Rate(0, 1), state |-> "nil"]

NoTTL == 0 - 1
NoRet == [sec |-> 0 - 1, nsec |-> 0]
Panicked == [sec |-> 0 - 2, nsec |-> 0]
Zero == [sec |-> 0, nsec |-> 0]

\* clock     the time, in ticks
\* zset      the sorted set the store holds under each key
\* expireAt  the instant EXPIRE last set for each key, or NoTTL
\* lb        the instance each caller got from NewLeakyBucket, or Nil
\* pc        where each caller is: idle, in Eval, or panicked
\* nowFloat  the timestamp of each caller's call in flight
\* log       the calls whose script ran, in the order the store ran them
\* failed    the last call on which the script did not run
\* made      the arguments of each caller's NewLeakyBucket, where kept
\* wake      the instant at which a sleeping caller's wait is over
VARIABLES clock, zset, expireAt, lb, pc, nowFloat, log, failed, made, wake

vars == <<clock, zset, expireAt, lb, pc, nowFloat, log, failed, made, wake>>

\* ------------------------------------------------------------ pure helpers
Max(S) == CHOOSE x \in S : \A y \in S : y <= x

RatePositive(rate) == rate.num > 0

\* local token_interval = 1.0 / rate, in ticks
TokenInterval(rate) == (rate.den * TicksPerSecond) \div rate.num

\* time.Duration(waitSeconds * float64(time.Second)): truncation to whole ns
DurationOf(w) ==
    [sec |-> w \div TicksPerSecond,
     nsec |-> (w % TicksPerSecond) * (NanosPerSecond \div TicksPerSecond)
              + ((w % TicksPerSecond) * (NanosPerSecond % TicksPerSecond)) \div TicksPerSecond]

DurLess(a, b) == a.sec < b.sec \/ (a.sec = b.sec /\ a.nsec < b.nsec)

\* ------------------------------------------------- the store's primitives
Entry(score, member) == [score |-> score, member |-> member]

Scores(zs) == {e.score : e \in zs}

\* ZREMRANGEBYSCORE key -inf max: both ends of the range are inclusive
ZRemRangeByScore(zs, max) == {e \in zs : ~(e.score <= max)}

\* ZREVRANGE key 0 0 WITHSCORES: the entry of highest score, if any
ZRevRange00(zs) == {e \in zs : \A f \in zs : f.score <= e.score}

\* ZADD that replaces the whole set by the one entry.
ZAddAlone(zs, score, member) == {Entry(score, member)}

\* ZADD key score member: a member is held once, with its latest score
ZAdd(zs, score, member) == {e \in zs : e.member # member} \cup {Entry(score, member)}

\* ------------------------------------------------------- the Lua script
\* redis.call('ZREMRANGEBYSCORE', key, '-inf', min_time) with min_time = ts - 1
Prune(zs, ts) == ZRemRangeByScore(zs, ts - WindowSeconds * TicksPerSecond)

\* next_time with the interval added to ts when the record is empty.
NextTimeNoFreshCase(pruned, ts, rate) ==
    LET last_tokens == ZRevRange00(pruned)
        last_time == IF last_tokens # {} THEN Max(Scores(last_tokens)) ELSE ts
        cand == last_time + TokenInterval(rate)
    IN  IF last_tokens # {} /\ ts >= cand THEN ts ELSE cand

\* next_time computed from the oldest entry left after pruning.
NextTimeFromOldest(pruned, ts, rate) ==
    IF pruned # {}
    THEN LET first_time == 0 - Max({0 - x : x \in Scores(pruned)})
             cand == first_time + TokenInterval(rate)
         IN  IF ts >= cand THEN ts ELSE cand
    ELSE ts

\* next_time with a ceiling: never more than one interval after ts.
NextTimeCeiling(pruned, ts, rate) ==
    LET last_tokens == ZRevRange00(pruned)
    IN  IF last_tokens # {}
        THEN LET last_time == Max(Scores(last_tokens))
                 cand == last_time + TokenInterval(rate)
             IN  IF ts >= cand THEN ts
                 ELSE IF cand > ts + TokenInterval(rate) THEN ts + TokenInterval(rate)
                 ELSE cand
        ELSE ts

\* next_time, from the newest entry left after pruning
NextTime(pruned, ts, rate) ==
    LET last_tokens == ZRevRange00(pruned)
    IN  IF last_tokens # {}
        THEN LET last_time == Max(Scores(last_tokens))
                 cand == last_time + TokenInterval(rate)
             IN  IF ts >= cand THEN ts ELSE cand
        ELSE ts

\* The script inserting the entry ts, whatever next_time it computed.
ScriptReservesNow(zs, ts, rate) ==
    LET pruned == Prune(zs, ts)
        next_time == NextTime(pruned, ts, rate)
        wait == next_time - ts
    IN  [record |-> ZAdd(pruned, ts, ts),
         next |-> next_time,
         wait |-> IF wait > 0 THEN wait ELSE 0]

\* The script of Allow run on the record zs with ARGV = ts, rate: the record
\* it leaves, the slot it reserves and the wait it returns.
Script(zs, ts, rate) ==
    LET pruned == Prune(zs, ts)
        next_time == NextTime(pruned, ts, rate)
        wait == next_time - ts
    IN  [record |-> ZAdd(pruned, next_time, next_time),
         next |-> next_time,
         wait |-> IF wait > 0 THEN wait ELSE 0]

\* ------------------------------------------------------------- replies
ErrReply == [kind |-> "err", numeric |-> FALSE, num |-> 0]
StringReply(w) == [kind |-> "string", numeric |-> TRUE, num |-> w]
GarbageReply == [kind |-> "string", numeric |-> FALSE, num |-> 0]
IntReply(n) == [kind |-> "int", numeric |-> TRUE, num |-> n]
NilReply == [kind |-> "nil", numeric |-> FALSE, num |-> 0]
NoReply == [kind |-> "none", numeric |-> FALSE, num |-> 0]

Replies ==
    {ErrReply, GarbageReply, NilReply}
        \cup {StringReply(w) : w \in (0 - 1) .. MaxReply}
        \cup {IntReply(n) : n \in 0 .. MaxReply}

\* Allow without the check of err: the nil result goes to the type assertion.
AllowResultNoErrCheck(r) ==
    IF r.kind # "string" THEN Panicked
    ELSE IF ~r.numeric THEN Zero
    ELSE IF r.num <= 0 THEN Zero
    ELSE DurationOf(r.num)

\* What Allow does with (result, err) of Eval(...).Result()
AllowResult(r) ==
    IF r.kind = "err" THEN Zero
    ELSE IF r.kind # "string" THEN Panicked
    ELSE IF ~r.numeric THEN Zero
    ELSE IF r.num <= 0 THEN Zero
    ELSE DurationOf(r.num)

NoCall == [ctx |-> "none", evals |-> 0, reply |-> NoReply, ret |-> NoRet]

NoArgs == [key |-> "", rate |-> Rate(0, 1), called |-> FALSE]

Args(key, rate) == [key |-> key, rate |-> rate, called |-> TRUE]

\* ------------------------------------------------------------------ Init
Init ==
    /\ clock = 0
    /\ zset = [k \in Keys |-> {}]
    /\ expireAt = [k \in Keys |-> NoTTL]
    /\ lb = [p \in Procs |-> Nil]
    /\ pc = [p \in Procs |-> "idle"]
    /\ nowFloat = [p \in Procs |-> 0]
    /\ log = <<>>
    /\ failed = NoCall
    /\ made = [p \in Procs |-> NoArgs]
    /\ wake = [p \in Procs |-> 0]

\* --------------------------------------------------------------- actions
\* NewLeakyBucket that refuses a negative rate only.
NewLeakyBucketResultZeroRate(client, key, rate) ==
    IF key = "" \/ rate.num < 0
    THEN Nil
    ELSE [client |-> client, key |-> key, rate |-> rate, state |-> "ok"]

\* NewLeakyBucket(client, key, rate)
NewLeakyBucketResult(client, key, rate) ==
    IF key = "" \/ ~RatePositive(rate)
    THEN Nil
    ELSE [client |-> client, key |-> key, rate |-> rate, state |-> "ok"]

NewLeakyBucket(p, key, rate) ==
    /\ pc[p] = "idle"
    /\ lb[p] = Nil
    /\ lb' = [lb EXCEPT ![p] = NewLeakyBucketResult(Client, key, rate)]
    /\ UNCHANGED <<clock, zset, expireAt, pc, nowFloat, log, failed>>

\* The store's clock advances by one tick; a key whose time-to-live has
\* run out is deleted.  expireAt keeps the instant EXPIRE last set.
Expired(k, t) == expireAt[k] # NoTTL /\ t > expireAt[k]

\* The clock advancing with no key ever deleted.
TickNoExpiry ==
    /\ clock < MaxTime
    /\ clock' = clock + 1
    /\ UNCHANGED <<zset, expireAt, lb, pc, nowFloat, log, failed, made, wake>>

Tick ==
    /\ clock < MaxTime
    /\ clock' = clock + 1
    /\ zset' = [k \in Keys |-> IF Expired(k, clock + 1) THEN {} ELSE zset[k]]
    /\ UNCHANGED <<expireAt, lb, pc, nowFloat, log, failed, made, wake>>

\* Allow(ctx) with a live context, up to the call of Eval: now := time.Now()
InFlight == {q \in Procs : pc[q] = "eval"}

\* Allow leaving a mark in the instance it is called on.
AllowStartMarks(p) ==
    /\ pc[p] = "idle"
    /\ lb[p] # Nil
    /\ Len(log) + Cardinality(InFlight) < MaxCalls
    /\ pc' = [pc EXCEPT ![p] = "eval"]
    /\ nowFloat' = [nowFloat EXCEPT ![p] = clock]
    /\ lb' = [lb EXCEPT ![p].client = "used"]
    /\ UNCHANGED <<clock, zset, expireAt, log, failed, made, wake>>

AllowStart(p) ==
    /\ pc[p] = "idle"
    /\ lb[p] # Nil
    /\ Len(log) + Cardinality(InFlight) < MaxCalls
    /\ pc' = [pc EXCEPT ![p] = "eval"]
    /\ nowFloat' = [nowFloat EXCEPT ![p] = clock]
    /\ UNCHANGED <<clock, zset, expireAt, lb, log, failed, made, wake>>

\* Allow, from the return of Eval with reply r to its own return.
AllowFinish(p, r) ==
    /\ pc' = [pc EXCEPT ![p] = IF AllowResult(r) = Panicked THEN "panic" ELSE "idle"]
    /\ nowFloat' = [nowFloat EXCEPT ![p] = 0]

\* A call on which the script did not run, as failed keeps it.
Failed(c, r) == [ctx |-> c, evals |-> 1, reply |-> r, ret |-> AllowResult(r)]

\* Allow with the cancelled context ignored: the script runs at once and its
\* reply is returned.
AllowCancelledIgnored(p) ==
    /\ pc[p] = "idle"
    /\ lb[p] # Nil
    /\ Len(log) + Cardinality(InFlight) < MaxCalls
    /\ LET out == Script(zset[lb[p].key], clock, lb[p].rate)
           r == StringReply(out.wait)
       IN  /\ zset' = [zset EXCEPT ![lb[p].key] = out.record]
           /\ expireAt' = [expireAt EXCEPT ![lb[p].key] = clock + ExpireSeconds * TicksPerSecond]
           /\ log' = Append(log, [key |-> lb[p].key, rate |-> lb[p].rate, ts |-> clock,
                                  seen |-> zset[lb[p].key], left |-> out.record,
                                  next |-> out.next, wait |-> out.wait,
                                  reply |-> r, ret |-> AllowResult(r)])
           /\ failed' = Failed("cancelled", r)
    /\ UNCHANGED <<clock, lb, pc, nowFloat, made, wake>>

\* Allow(ctx) with a context that is already cancelled or past its deadline:
\* Eval returns the context's error without running the script.
AllowCancelled(p) ==
    /\ pc[p] = "idle"
    /\ lb[p] # Nil
    /\ failed' = Failed("cancelled", ErrReply)
    /\ UNCHANGED <<clock, zset, expireAt, lb, pc, nowFloat, log, made, wake>>

\* The script run with another key than the instance's.
CommitOtherKey(p, out, r) ==
    /\ zset' = [zset EXCEPT !["b"] = out.record]
    /\ expireAt' = [expireAt EXCEPT !["b"] = clock + ExpireSeconds * TicksPerSecond]
    /\ log' = Append(log, [key |-> lb[p].key, rate |-> lb[p].rate, ts |-> nowFloat[p],
                           seen |-> zset[lb[p].key], left |-> out.record,
                           next |-> out.next, wait |-> out.wait,
                           reply |-> r, ret |-> AllowResult(r)])

\* The store runs the script of p's call as one command.  The log keeps the
\* call: the instance's key and rate, the call's timestamp, the record the
\* script found and the one it left, what it computed, the reply that
\* reached Allow and the value Allow returned.
Commit(p, out, r) ==
    /\ zset' = [zset EXCEPT ![lb[p].key] = out.record]
    /\ expireAt' = [expireAt EXCEPT ![lb[p].key] = clock + ExpireSeconds * TicksPerSecond]
    /\ log' = Append(log, [key |-> lb[p].key, rate |-> lb[p].rate, ts |-> nowFloat[p],
                           seen |-> zset[lb[p].key], left |-> out.record,
                           next |-> out.next, wait |-> out.wait,
                           reply |-> r, ret |-> AllowResult(r)])

\* Eval succeeds: the script runs and its reply reaches the caller.
EvalOk(p) ==
    /\ pc[p] = "eval"
    /\ LET out == Script(zset[lb[p].key], nowFloat[p], lb[p].rate)
       IN  Commit(p, out, StringReply(out.wait)) /\ AllowFinish(p, StringReply(out.wait))
    /\ UNCHANGED <<clock, lb, failed, made, wake>>

\* Eval fails after the script ran (the reply is lost or comes too late).
EvalLost(p) ==
    /\ pc[p] = "eval"
    /\ LET out == Script(zset[lb[p].key], nowFloat[p], lb[p].rate)
       IN  Commit(p, out, ErrReply) /\ AllowFinish(p, ErrReply)
    /\ UNCHANGED <<clock, lb, failed, made, wake>>

\* Allow calling Eval again after a failure: the caller stays in the call.
EvalFailRetry(p) ==
    /\ pc[p] = "eval"
    /\ failed' = Failed("live", ErrReply)
    /\ UNCHANGED <<clock, zset, expireAt, lb, pc, nowFloat, log, made, wake>>

\* A failed Eval that has nevertheless left a reservation in the store.
EvalFailReserves(p) ==
    /\ pc[p] = "eval"
    /\ AllowFinish(p, ErrReply)
    /\ failed' = Failed("live", ErrReply)
    /\ LET out == Script(zset[lb[p].key], nowFloat[p], lb[p].rate)
       IN  /\ zset' = [zset EXCEPT ![lb[p].key] = out.record]
           /\ expireAt' = [expireAt EXCEPT ![lb[p].key] = clock + ExpireSeconds * TicksPerSecond]
    /\ UNCHANGED <<clock, lb, log, made, wake>>

\* Eval fails before the script runs (store unreachable, timeout): nothing
\* is committed.
EvalFail(p) ==
    /\ pc[p] = "eval"
    /\ AllowFinish(p, ErrReply)
    /\ failed' = Failed("live", ErrReply)
    /\ UNCHANGED <<clock, zset, expireAt, lb, log, made, wake>>

\* The instances of one key are made with one rate.
OneRatePerKey(p, key, rate) ==
    \A q \in Procs \ {p} : (lb[q] # Nil /\ lb[q].key = key) => lb[q].rate = rate

Next ==
    \/ Tick
    \/ \E p \in Procs, key \in BucketInputs, rate \in RateInputs :
          OneRatePerKey(p, key, rate) /\ NewLeakyBucket(p, key, rate) /\ UNCHANGED <<made, wake>>
    \/ \E p \in Procs : AllowStart(p)
    \/ \E p \in Procs : AllowCancelled(p)
    \/ \E p \in Procs : EvalOk(p)
    \/ \E p \in Procs : EvalLost(p)
    \/ \E p \in Procs : EvalFail(p)

Spec == Init /\ [][Next]_vars

\* Eval returns reply r, whatever a store may answer; the script's run is
\* left out.
EvalReply(p, r) ==
    /\ pc[p] = "eval"
    /\ AllowFinish(p, r)
    /\ failed' = Failed("live", r)
    /\ UNCHANGED <<clock, zset, expireAt, lb, log, made, wake>>

NextReplies ==
    \/ \E p \in Procs, key \in BucketInputs, rate \in RateInputs :
          OneRatePerKey(p, key, rate) /\ NewLeakyBucket(p, key, rate) /\ UNCHANGED <<made, wake>>
    \/ \E p \in Procs : AllowStart(p)
    \/ \E p \in Procs, r \in Replies : EvalReply(p, r)

\* Allow against a store that may answer anything.
SpecReplies == Init /\ [][NextReplies]_vars

\* NewLeakyBucket with its arguments kept, so that a call that returned nil
\* can be told from no call.
NewLeakyBucketKept(p, key, rate) ==
    /\ made[p] = NoArgs
    /\ NewLeakyBucket(p, key, rate)
    /\ made' = [made EXCEPT ![p] = Args(key, rate)]
    /\ UNCHANGED wake

NextNew ==
    \/ \E p \in Procs, key \in BucketInputs, rate \in RateInputs :
          NewLeakyBucketKept(p, key, rate)
    \/ \E p \in Procs : AllowStart(p)
    \/ \E p \in Procs : EvalOk(p)

\* Construction with any arguments, then calls of Allow at one instant.
SpecNew == Init /\ [][NextNew]_vars

\* Callers on either key, as the per-user handler makes one instance per
\* user key.
NextKeys ==
    \/ Tick
    \/ \E p \in Procs, key \in Keys, rate \in Rates :
          OneRatePerKey(p, key, rate) /\ NewLeakyBucket(p, key, rate) /\ UNCHANGED <<made, wake>>
    \/ \E p \in Procs : AllowStart(p)
    \/ \E p \in Procs : EvalOk(p)

SpecKeys == Init /\ [][NextKeys]_vars

\* ---------------------------------------------------- callers that retry
\* Here the time is measured from the present instant: clock stays 0 and
\* the passing of one tick moves every instant held in the state (scores
\* and members, expiry instants, wake-up instants) one tick into the past.
\* The script depends on differences of instants only, so nothing is lost,
\* and behaviours of any length stay within finitely many states.

\* Allow by a caller that calls again when its wait is over, as
\* sequentialDemo does (time.Sleep(waitTime), then Allow again), until a
\* call returns 0.  The round trip takes less than a tick.
AllowRetry(p) ==
    /\ lb[p] # Nil
    /\ pc[p] = "idle" \/ (pc[p] = "sleep" /\ wake[p] <= clock)
    /\ LET out == Script(zset[lb[p].key], clock, lb[p].rate)
           ret == AllowResult(StringReply(out.wait))
       IN  /\ zset' = [zset EXCEPT ![lb[p].key] = out.record]
           /\ expireAt' = [expireAt EXCEPT ![lb[p].key] = clock + ExpireSeconds * TicksPerSecond]
           /\ pc' = [pc EXCEPT ![p] = IF ret = Zero THEN "done" ELSE "sleep"]
           /\ wake' = [wake EXCEPT ![p] = clock + out.wait]
    /\ UNCHANGED <<clock, lb, nowFloat, log, failed, made>>

Earlier(zs) == {Entry(e.score - 1, e.member - 1) : e \in zs}

\* One tick passes.  A sleeping caller wakes at the end of its wait or at
\* most MaxLate ticks later.
Shift ==
    /\ \A p \in Procs : pc[p] = "sleep" => wake[p] > clock - MaxLate
    /\ zset' = [k \in Keys |-> IF Expired(k, clock + 1) THEN {} ELSE Earlier(zset[k])]
    /\ expireAt' = [k \in Keys |-> IF expireAt[k] = NoTTL \/ Expired(k, clock + 1)
                                  THEN NoTTL ELSE expireAt[k] - 1]
    /\ wake' = [p \in Procs |-> IF pc[p] = "sleep" THEN wake[p] - 1 ELSE wake[p]]
    /\ UNCHANGED <<clock, lb, pc, nowFloat, log, failed, made>>

NextRetry ==
    \/ Shift
    \/ \E p \in Procs, key \in BucketInputs, rate \in RateInputs :
          OneRatePerKey(p, key, rate) /\ NewLeakyBucket(p, key, rate) /\ UNCHANGED <<made, wake>>
    \/ \E p \in Procs : AllowRetry(p)

\* Time goes on, and a caller whose wait is over does call and is answered.
SpecRetry ==
    /\ Init
    /\ [][NextRetry]_vars
    /\ WF_vars(Shift)
    /\ \A p \in Procs : WF_vars(AllowRetry(p))

\* ------------------------------------------------------------- the claims
Committed == 1 .. Len(log)

\* The round trip of call i succeeded: the script's reply reached Allow.
Answered(i) == log[i].reply.kind = "string"

Interval(i) == TokenInterval(log[i].rate)

SameBucket(i, j) == log[i].key = log[j].key /\ log[i].rate = log[j].rate

NonDecreasing == \A i, j \in Committed : i < j => log[i].ts <= log[j].ts

Positive(d) == DurLess(Zero, d)

\* ceil(rate * 1 second)
CeilRate(rate) == (rate.num + rate.den - 1) \div rate.den

\* C1 (as claimed): over committed calls of one key and rate with
\* non-decreasing timestamps, two calls that both return 0 have timestamps
\* at least 1/rate apart.
C1_AdmittedIntervalApart ==
    NonDecreasing =>
        \A i, j \in Committed :
            (i < j /\ SameBucket(i, j) /\ Answered(i) /\ Answered(j)
               /\ log[i].ret = Zero /\ log[j].ret = Zero)
            => log[j].ts - log[i].ts >= Interval(i)

\* C2: a call whose script finds the key's record absent or empty returns
\* exactly 0, at every rate.
C2_FirstReturnsZero ==
    \A i \in Committed : log[i].seen = {} => log[i].ret = Zero

C2_Witness ==
    \E i \in Committed :
        /\ i > 1
        /\ log[i].seen = {}
        /\ log[i].reply = StringReply(0)
        /\ log[i].ret = Zero
        /\ log[i].rate = Rate(1, 2)

\* C3 (as claimed): after a call at t1 on an idle key returned 0, the next
\* call on the key, at t2 with t1 <= t2 < t1 + 1/rate, returns the positive
\* wait 1/rate - (t2 - t1).
C3_SecondWaitsRestOfInterval ==
    \A i \in Committed :
        (/\ i + 1 \in Committed
         /\ SameBucket(i, i + 1)
         /\ log[i].seen = {} /\ Answered(i) /\ log[i].ret = Zero
         /\ Answered(i + 1)
         /\ log[i].ts <= log[i + 1].ts
         /\ log[i + 1].ts < log[i].ts + Interval(i))
        => /\ Positive(log[i + 1].ret)
           /\ log[i + 1].ret = DurationOf(Interval(i) - (log[i + 1].ts - log[i].ts))

\* C4 (as claimed): after a call returned a positive wait w, the next call on
\* the key, made once w has passed (its timestamp has reached the reserved
\* slot), returns 0.
C4_AdmittedAfterSleep ==
    \A i \in Committed :
        (/\ i + 1 \in Committed
         /\ SameBucket(i, i + 1)
         /\ Answered(i) /\ Positive(log[i].ret)
         /\ Answered(i + 1)
         /\ log[i + 1].ts >= log[i].ts + log[i].wait)
        => log[i + 1].ret = Zero

\* C5 (as claimed): three successive calls on a fresh key, each gap shorter
\* than 1/rate, return waits with wait1 = 0 < wait2 < wait3.
C5_MonotonicBacklog ==
    (/\ Len(log) >= 3
     /\ log[1].seen = {}
     /\ SameBucket(1, 2) /\ SameBucket(2, 3)
     /\ Answered(1) /\ Answered(2) /\ Answered(3)
     /\ log[1].ts <= log[2].ts /\ log[2].ts <= log[3].ts
     /\ log[2].ts - log[1].ts < Interval(1)
     /\ log[3].ts - log[2].ts < Interval(1))
    => /\ log[1].ret = Zero
       /\ Positive(log[2].ret)
       /\ DurLess(log[2].ret, log[3].ret)

\* C6 (as claimed): N >= 2 calls on a fresh bucket whose timestamps lie
\* within a span shorter than 1/rate: in every commit order at least one
\* returns 0, at least one returns a positive wait, and at most
\* ceil(rate * 1 s) return 0.
C6_ConcurrentBurst ==
    (/\ Len(log) >= 2
     /\ \A i, j \in Committed :
           /\ SameBucket(i, j)
           /\ Answered(i)
           /\ log[i].ts - log[j].ts < Interval(i))
    => /\ \E i \in Committed : log[i].ret = Zero
       /\ \E i \in Committed : Positive(log[i].ret)
       /\ Cardinality({i \in Committed : log[i].ret = Zero}) <= CeilRate(log[1].rate)

\* The commit on call i's key just before call i, or 0.
PrevOn(i) ==
    LET before == {j \in Committed : j < i /\ log[j].key = log[i].key}
    IN  IF before = {} THEN 0 ELSE Max(before)

\* The last commit on key k, or 0.
LastOn(k) ==
    LET on == {j \in Committed : log[j].key = k}
    IN  IF on = {} THEN 0 ELSE Max(on)

Reserved(i) == Entry(log[i].next, log[i].next)

\* C7 (as claimed): the later-committing call always finds the entry the
\* call committed before it on the key has inserted.
C7_LaterSeesEarlier ==
    \A i \in Committed : PrevOn(i) # 0 => Reserved(PrevOn(i)) \in log[i].seen

\* C7 (amended): the calls of a key take effect one at a time, in commit
\* order.  Each script runs on exactly the record the commit before it left,
\* its entry included, or on the empty record once the key's time-to-live
\* has run out; it leaves what the script makes of that record and returns
\* the script's wait; and the key's record is the one the last commit left
\* until the time-to-live runs out.
C7_Linearized ==
    /\ \A i \in Committed :
          LET j == PrevOn(i)
              out == Script(log[i].seen, log[i].ts, log[i].rate)
          IN  /\ log[i].seen \in {IF j = 0 THEN {} ELSE log[j].left, {}}
              /\ log[i].seen # {} => Reserved(j) \in log[i].seen
              /\ Reserved(i) \in log[i].left
              /\ log[i].left = out.record
              /\ log[i].wait = out.wait
              /\ Answered(i) => log[i].ret = AllowResult(StringReply(out.wait))
    /\ \A k \in Keys :
          zset[k] = IF LastOn(k) = 0 \/ clock > expireAt[k]
                    THEN {}
                    ELSE log[LastOn(k)].left

\* Two calls in flight together, committed in the order opposite to their
\* timestamps; the later commit found the earlier one's entry and waits.
C7_Witness ==
    /\ Len(log) >= 2
    /\ log[2].ts < log[1].ts
    /\ Reserved(1) \in log[2].seen
    /\ Answered(1) /\ Answered(2)
    /\ log[1].ret = Zero
    /\ Positive(log[2].ret)
    /\ zset[log[2].key] = log[2].left

\* C8: a call whose round trip to the store fails returns 0: no positive
\* wait, no error out of Allow, one Eval.
C8_FailOpen ==
    /\ failed.reply.kind = "err" => (failed.ret = Zero /\ failed.evals = 1)
    /\ \A i \in Committed : log[i].reply.kind = "err" => log[i].ret = Zero
    /\ \A p \in Procs : pc[p] # "panic"

\* A call failed before the script ran, and another lost the reply of a
\* script that had computed a positive wait.
C8_Witness ==
    /\ failed.ctx = "live"
    /\ failed.reply = ErrReply
    /\ failed.ret = Zero
    /\ \E i \in Committed :
          log[i].reply = ErrReply /\ log[i].wait > 0 /\ log[i].ret = Zero

Malformed(r) == r.kind # "string" \/ ~r.numeric

\* C9 (as claimed): whatever the store replies (an error, a string that is
\* no number, a value that is no string), Allow returns normally, with 0 for
\* a malformed reply.
C9_EveryReplyReturns ==
    /\ failed # NoCall =>
          /\ failed.ret # Panicked
          /\ Malformed(failed.reply) => failed.ret = Zero
    /\ \A p \in Procs : pc[p] # "panic"

\* C10: a call whose context is already cancelled returns 0, whatever the
\* bucket holds.
C10_CancelledReturnsZero ==
    failed.ctx = "cancelled" => (failed.reply = ErrReply /\ failed.ret = Zero)

\* A cancelled call has returned 0 and the key's newest reservation lies in
\* the future.
C10_Witness ==
    /\ failed.ctx = "cancelled"
    /\ failed.ret = Zero
    /\ \E p \in Procs :
          /\ lb[p] # Nil
          /\ \E e \in zset[lb[p].key] : e.score > clock

\* C11: NewLeakyBucket returns nil exactly when the key is empty or the rate
\* is <= 0, and otherwise an instance holding the given client, key and rate;
\* Allow checks nothing more: every call made on an instance runs the script
\* with the instance's key and rate and returns the script's wait.
C11_ValidatedAtConstruction ==
    /\ \A p \in Procs :
          made[p].called =>
              /\ lb[p] = Nil <=> (made[p].key = "" \/ made[p].rate.num <= 0)
              /\ lb[p] # Nil =>
                    lb[p] = [client |-> Client, key |-> made[p].key,
                             rate |-> made[p].rate, state |-> "ok"]
    /\ \A p \in Procs : pc[p] = "eval" => (lb[p] # Nil /\ made[p].called)
    /\ \A i \in Committed :
          /\ \E p \in Procs : lb[p] # Nil /\ lb[p].key = log[i].key /\ lb[p].rate = log[i].rate
          /\ log[i].ret = AllowResult(StringReply(log[i].wait))
          /\ log[i].ret # Panicked

\* One construction has returned nil for a rate of 0; another has returned an
\* instance, on which a call has been admitted.
C11_Witness ==
    /\ \E p \in Procs : made[p] = Args("a", Rate(0, 1)) /\ lb[p] = Nil
    /\ \E p \in Procs :
          /\ made[p] = Args("a", Rate(1, 2))
          /\ lb[p] # Nil
          /\ \E i \in Committed : log[i].rate = Rate(1, 2) /\ log[i].ret = Zero

\* The call the store has just run, in a step that ran one.
Ran == Len(log') = Len(log) + 1

Last == log'[Len(log')]

\* The record or the time-to-live of key k changes in a step only by a call
\* on k or by the expiry of k.
OnlyOwnKeyChanges ==
    \A k \in Keys :
        (zset'[k] # zset[k] \/ expireAt'[k] # expireAt[k])
        => \/ Ran /\ Last.key = k
           \/ /\ clock' # clock
              /\ Expired(k, clock')
              /\ zset'[k] = {}
              /\ expireAt'[k] = expireAt[k]

\* The script of a call runs on the record of the call's key; what it leaves
\* and returns is computed from that record alone.
ReadsOwnKey ==
    Ran =>
        LET out == Script(zset[Last.key], Last.ts, Last.rate)
        IN  /\ Last.seen = zset[Last.key]
            /\ Last.left = out.record
            /\ Last.wait = out.wait
            /\ zset'[Last.key] = out.record

\* C12: a call on one key reads and changes the record and the time-to-live
\* of that key only, and its result does not depend on the other key: the
\* calls of a key see the records the earlier calls of that key left (or the
\* empty record), whatever the calls on the other key do.
C12_KeysIndependent ==
    /\ [](\A i \in Committed :
            log[i].seen \in {IF PrevOn(i) = 0 THEN {} ELSE log[PrevOn(i)].left, {}})
    /\ [][OnlyOwnKeyChanges /\ ReadsOwnKey]_vars

\* Calls on the two keys interleaved: a, b, a; both keys hold a record and
\* the second call on a waits behind the first one's entry.
C12_Witness ==
    /\ Len(log) = 3
    /\ log[1].key = "a" /\ log[2].key = "b" /\ log[3].key = "a"
    /\ Reserved(1) \in log[3].seen
    /\ Reserved(2) \notin log[3].seen
    /\ log[3].wait > 0
    /\ zset["b"] = log[2].left
    /\ zset["a"] = log[3].left

\* C13: every call whose script ran, whatever it returned, has inserted
\* exactly one new entry, with score = member = its next_time; the entry is
\* strictly greater than every entry left after pruning, and the entries the
\* pruning left are all still there, unchanged.
C13_OneNewNewestEntry ==
    \A i \in Committed :
        LET kept == Prune(log[i].seen, log[i].ts)
            new == log[i].left \ kept
        IN  /\ new = {Reserved(i)}
            /\ Reserved(i).score = log[i].next /\ Reserved(i).member = log[i].next
            /\ \A e \in kept : e.score < log[i].next /\ e.member # Reserved(i).member
            /\ kept \subseteq log[i].left
            /\ Cardinality(log[i].left) = Cardinality(kept) + 1
            /\ ZRevRange00(log[i].left) = {Reserved(i)}

\* A call that must wait has run on a record of which one entry was pruned
\* and one was kept.
C13_Witness ==
    \E i \in Committed :
        /\ log[i].wait > 0
        /\ Positive(log[i].ret)
        /\ Prune(log[i].seen, log[i].ts) # {}
        /\ Prune(log[i].seen, log[i].ts) # log[i].seen
        /\ Cardinality(log[i].left) = 2

\* C14 (as claimed): the reservation a call has committed at next_time is in
\* the key's record as long as the time has not reached next_time.
C14_ReservationStays ==
    \A i \in Committed :
        clock < log[i].next => Reserved(i) \in zset[log[i].key]

\* C15 (as claimed): the slots (next_time) given in commit order to the calls
\* of one key and rate are strictly increasing, each at least 1/rate after
\* the slot of the call committed before it.
C15_SlotsIntervalApart ==
    \A i \in Committed :
        (PrevOn(i) # 0 /\ SameBucket(PrevOn(i), i))
        => /\ log[i].next > log[PrevOn(i)].next
           /\ log[i].next >= log[PrevOn(i)].next + Interval(i)

\* C16 (as claimed): a caller that calls again whenever its wait is over is
\* admitted in the end (one of its calls returns 0), once the other callers
\* have stopped calling.
C16_RetryEventuallyAdmitted ==
    \A p \in Procs :
        (pc[p] = "sleep" /\ \A q \in Procs \ {p} : pc[q] = "done")
            ~> (pc[p] = "done")

\* The entry the script of call i has inserted.
Inserted(i) == log[i].left \ Prune(log[i].seen, log[i].ts)

NonNegative(d) == d # Panicked /\ ~DurLess(d, Zero)

Idle(k) == expireAt[k] # NoTTL /\ clock > expireAt[k]

\* The store runs a call on a key that has been idle for more than the
\* time-to-live: the call finds no record, returns 0 and leaves the single
\* entry now, as on a key never used.
FreshAfterExpiry ==
    (Ran /\ Idle(Last.key)) =>
        /\ Last.seen = {}
        /\ Last.ret = Zero
        /\ Last.left = {Entry(Last.ts, Last.ts)}
        /\ zset'[Last.key] = {Entry(Last.ts, Last.ts)}
        /\ Script({}, Last.ts, Last.rate).record = Last.left

\* C18: a key on which no call has been committed for the time-to-live
\* (the 2 seconds have run out) holds no record any more, and the next call
\* on it behaves as on a key never used: it returns 0 and leaves the single
\* entry now.
C18_ExpiredIsFresh ==
    /\ [](\A k \in Keys : Idle(k) => zset[k] = {})
    /\ [][FreshAfterExpiry]_vars

\* A key that held a reservation in the future has expired, and the call
\* after the expiry has returned 0 and left its own entry alone.
C18_Witness ==
    \E i \in Committed :
        /\ PrevOn(i) # 0
        /\ log[PrevOn(i)].next > log[PrevOn(i)].ts
        /\ log[i].seen = {}
        /\ log[i].ret = Zero
        /\ zset[log[i].key] = {Entry(log[i].ts, log[i].ts)}

\* The entries of the record call i found that its pruning left.
Kept(i) == Prune(log[i].seen, log[i].ts)

\* The reference: next_time from the newest remaining score (or none), the
\* timestamp and the interval.
RefNextTime(newest, now, interval) ==
    IF newest = {} THEN now
    ELSE LET last_time == CHOOSE x \in newest : TRUE
         IN  IF last_time + interval <= now THEN now ELSE last_time + interval

RefWait(newest, now, interval) ==
    LET d == RefNextTime(newest, now, interval) - now
    IN  IF d >= 0 THEN d ELSE 0

Newest(zs) == IF zs = {} THEN {} ELSE {Max(Scores(zs))}

\* C19: the slot and the wait of a call whose script ran are the reference
\* function of the newest entry left after pruning, the timestamp and the
\* rate; the other entries of the record do not matter: the script run on
\* any part of the remaining record that holds its newest entry gives the
\* same wait.
C19_WaitIsReference ==
    \A i \in Committed :
        LET newest == Newest(Kept(i))
            w == RefWait(newest, log[i].ts, Interval(i))
        IN  /\ log[i].next = RefNextTime(newest, log[i].ts, Interval(i))
            /\ log[i].wait = w
            /\ Answered(i) => log[i].ret = IF w = 0 THEN Zero ELSE DurationOf(w)
            /\ \A part \in SUBSET Kept(i) :
                  Newest(part) = newest =>
                      Script(part, log[i].ts, log[i].rate).wait = log[i].wait

\* One call found two entries left after pruning and has to wait behind the
\* newer one; another found an entry whose slot was already past and got now.
C19_Witness ==
    /\ \E i \in Committed :
          Cardinality(Kept(i)) >= 2 /\ log[i].wait > 0 /\ Positive(log[i].ret)
    /\ \E i \in Committed :
          Kept(i) # {} /\ log[i].next = log[i].ts /\ log[i].ret = Zero /\ Answered(i)

\* C20 (as claimed): the pruning of a call at time now removes exactly the
\* entries with score < now - 1 s and keeps every entry with score >= now -
\* 1 s, the one scored exactly now - 1 s included.
C20_PruneStrictlyOlder ==
    \A i \in Committed :
        \A e \in log[i].seen :
            /\ e.score < log[i].ts - WindowSeconds * TicksPerSecond => e \notin log[i].left
            /\ e.score >= log[i].ts - WindowSeconds * TicksPerSecond => e \in log[i].left

\* Calls s .. k are a burst on a fresh key: call s found no record, and the
\* calls after it up to k are on the same key with the same rate and the same
\* timestamp.
Burst(s, k) ==
    /\ s <= k
    /\ log[s].seen = {}
    /\ \A j \in (s + 1) .. k : SameBucket(s, j) /\ log[j].ts = log[s].ts

\* C21 (as claimed): in a burst on a fresh key, the k-th call is given the
\* slot t + (k-1)/rate and returns the wait (k-1)/rate, for every k.
C21_BacklogGrowsLinearly ==
    \A s, k \in Committed :
        Burst(s, k) =>
            /\ log[k].next = log[s].ts + (k - s) * Interval(s)
            /\ log[k].ret = IF k = s THEN Zero ELSE DurationOf((k - s) * Interval(s))

\* C21 (amended): the same, as long as the key's time-to-live does not run
\* out between two commits of the burst (every call after the first finds a
\* record); the wait is returned by the calls whose reply reaches them, and a
\* call whose reply is lost returns 0.
C21_BacklogWithinTTL ==
    \A s, k \in Committed :
        (Burst(s, k) /\ \A j \in (s + 1) .. k : log[j].seen # {}) =>
            /\ log[k].next = log[s].ts + (k - s) * Interval(s)
            /\ log[k].wait = (k - s) * Interval(s)
            /\ Answered(k) =>
                  log[k].ret = IF k = s THEN Zero ELSE DurationOf((k - s) * Interval(s))
            /\ ~Answered(k) => log[k].ret = Zero

\* Three calls with one timestamp at one request per two seconds: the third
\* is told to wait four seconds.
C21_Witness ==
    /\ Len(log) = 3
    /\ Burst(1, 3)
    /\ \A j \in 2 .. 3 : log[j].seen # {}
    /\ log[3].rate = Rate(1, 2)
    /\ Answered(3)
    /\ log[3].ret = DurationOf(2 * TokenInterval(Rate(1, 2)))

\* Caller p's call of Allow returns in this step.
Returns(p) == pc[p] = "eval" /\ pc'[p] # "eval"

\* A call in flight ends with the one answer of Eval, be it the script's
\* reply or an error: the script has run at most once for it, in that very
\* step; the caller is back at once, at the instant of the answer, whatever
\* slot it was given; and no answer of Eval leaves the caller in the call.
OneRoundTrip ==
    /\ \A p \in Procs :
          Returns(p) =>
              /\ pc'[p] = "idle"
              /\ clock' = clock
              /\ Ran \/ (log' = log /\ failed' = Failed("live", ErrReply))
              /\ Ran => Len(log') = Len(log) + 1 /\ Last.ts = nowFloat[p]
    /\ Ran => \E p \in Procs : Returns(p)
    /\ (failed' # failed /\ failed'.ctx = "live") => \E p \in Procs : Returns(p)
    /\ failed' # failed => failed'.evals = 1

\* C22: every call of Allow ends after exactly one run of Eval, whether the
\* run succeeds or fails; it does not retry, sleep, or wait for its slot.
C22_OneInvocation ==
    /\ [](\A p \in Procs : pc[p] \in {"idle", "eval"})
    /\ [][OneRoundTrip]_vars

\* All callers are back; one call was given a slot still ahead and returned
\* the wait, and one call failed.
C22_Witness ==
    /\ \A p \in Procs : pc[p] = "idle" /\ lb[p] # Nil
    /\ failed = Failed("live", ErrReply)
    /\ Len(log) = 2
    /\ Answered(2) /\ Positive(log[2].ret)
    /\ clock < log[2].next

\* An instance, once made, stays as NewLeakyBucket made it.
InstanceKept == \A p \in Procs : lb[p] # Nil => lb'[p] = lb[p]

\* What a call does to the store and what it returns is the script's output
\* on the record of the instance's key, the call's timestamp and the
\* instance's rate; nothing else of the calling instance enters.
OutcomeFromRecord ==
    Ran =>
        \E p \in Procs :
            /\ Returns(p)
            /\ Last.key = lb[p].key /\ Last.rate = lb[p].rate /\ Last.ts = nowFloat[p]
            /\ LET out == Script(zset[lb[p].key], nowFloat[p], lb[p].rate)
               IN  /\ Last.left = out.record
                   /\ Last.wait = out.wait
                   /\ zset' = [zset EXCEPT ![lb[p].key] = out.record]
                   /\ Last.ret \in {AllowResult(StringReply(out.wait)), AllowResult(ErrReply)}

\* C23: Allow never changes the instance, and the outcome of a call depends
\* only on the record of the key, the call's timestamp and the rate; so calls
\* made through several instances of one key and rate give the waits and the
\* record that the same calls give through one instance.
C23_NoInstanceState ==
    /\ [](\A p \in Procs : lb[p] # Nil => lb[p] = NewLeakyBucketResult(Client, lb[p].key, lb[p].rate))
    /\ [][InstanceKept /\ OutcomeFromRecord]_vars

\* Two instances of one key and rate; the store ran their calls in the order
\* opposite to their timestamps, and the second ran on what the first left.
C23_Witness ==
    /\ lb["p1"] # Nil /\ lb["p1"] = lb["p2"]
    /\ Len(log) = 2
    /\ log[2].ts < log[1].ts
    /\ log[2].seen = log[1].left
    /\ log[2].wait = Script(log[1].left, log[2].ts, lb["p2"].rate).wait
    /\ zset[lb["p1"].key] = log[2].left

\* The rate the callers of key k use (one rate per key), if any.
RatesOn(k) == {lb[p].rate : p \in {q \in Procs : lb[q] # Nil /\ lb[q].key = k}}

\* C24: in every reachable state, with all callers of a key using one rate,
\* two distinct entries of the key's record are at least 1/rate apart, and
\* the member of every entry equals its score.
C24_EntriesIntervalApart ==
    \A k \in Keys :
        /\ \A e \in zset[k] : e.member = e.score
        /\ \A r \in RatesOn(k) :
              \A e, f \in zset[k] :
                  e.score < f.score => f.score - e.score >= TokenInterval(r)
        /\ \A e, f \in zset[k] : e.score = f.score => e = f

\* A record of three entries at two requests per second, one of them a
\* reservation still ahead.
C24_Witness ==
    /\ Cardinality(zset["a"]) = 3
    /\ RatesOn("a") = {Rate(TicksPerSecond, 1)}
    /\ \E e \in zset["a"] : e.score > clock

\* A call ends without its script having run: Eval failed first, or the
\* context was cancelled already.
FailsBeforeScript ==
    /\ ~Ran
    /\ \/ \E p \in Procs : Returns(p)
       \/ failed' # failed

\* C25: a call that fails open because Eval failed before the script ran
\* leaves the record and the time-to-live of every key as they were and
\* reserves nothing; the record stays the one the last committed call left
\* (or empty once expired), so later calls compute their waits as if the
\* failed call had not been made.
C25_FailedCallLeavesNoTrace ==
    /\ [][FailsBeforeScript =>
             (zset' = zset /\ expireAt' = expireAt /\ log' = log
                /\ failed'.ret = Zero)]_vars
    /\ [](\A k \in Keys :
             zset[k] = IF LastOn(k) = 0 \/ Idle(k) THEN {} ELSE log[LastOn(k)].left)

\* A call failed before its script ran while the key held a reservation
\* still ahead; the record is the one the two committed calls left.
C25_Witness ==
    /\ failed = Failed("live", ErrReply)
    /\ Len(log) = 2
    /\ log[2].seen = log[1].left
    /\ zset[log[2].key] = log[2].left
    /\ log[2].next > clock
    /\ \A p \in Procs : pc[p] = "idle"

TypeOK ==
    /\ clock \in 0 .. MaxTime
    /\ \A k \in Keys : \A e \in zset[k] : e.score = e.member
    /\ Len(log) <= MaxCalls

====
